---- MODULE Spec2Model ----
(***************************************************************************)
(* Model of package httperr: handlers that return errors, the middleware   *)
(* composer (Wrap, WrapCommon, WrapToStd, WrapCommonToStd), the error      *)
(* translator (HandleErr) and the classified error type (handlerError,     *)
(* NewError).                                                              *)
(*                                                                         *)
(* An error value is the sequence of the errors of its Unwrap chain, the   *)
(* outermost first; the nil error is the empty sequence.  A composed       *)
(* handler is the sequence of its closures, the outermost first and the    *)
(* terminal handler last: each closure captures the rest as its "next".    *)
(* Error texts are sequences of tokens, so that "the text contains the     *)
(* cause" can be asked of them.  A middleware is one of the contract: it   *)
(* runs its pre-logic, calls next, runs its post-logic and returns the     *)
(* error next returned.  An error value stands for one allocation: two     *)
(* errors are the same pointer exactly when they are the same value.       *)
(***************************************************************************)
EXTENDS Integers, Sequences, FiniteSets, TLC

\* ---------------------------------------------------------------- bounds

\* Longest Unwrap chain above a sentinel error that a handler returns.
MaxDepth == 2
\* Longest middleware list given to Wrap / WrapCommon in SpecWrap.
MaxMw == 3
\* Longest middleware list given to the ...ToStd entry points in Spec.
MaxStdMw == 1
\* Longest Unwrap chain above a sentinel of the two errors compared in
\* SpecPair.
MaxPairDepth == 1

\* ---------------------------------------------------------------- inputs

\* Texts of the application's sentinel errors (errors.New).
Sentinels == {"x", "y"}
\* Status codes the application passes to NewError.
Statuses == {0, 404}
\* Message parts the application passes to NewError.
MsgParts == {<<>>, <<"not", "found">>}
\* Middleware the application may list.
Mws == {"m1", "m2"}

\* ---------------------------------------------------------------- errors

NilErr == <<>>

\* errors.New(text): a sentinel error, with no Unwrap.
ErrorsNew(text) == <<[kind |-> "errorString", s |-> text]>>

\* fmt.Errorf("wrap: %w", err): a plain wrapper of err.
Errorf(err) == <<[kind |-> "wrapError"]>> \o err

RECURSIVE Join(_, _)
\* strings.Join(elems, sep)
Join(elems, sep) ==
    IF Len(elems) = 0 THEN ""
    ELSE IF Len(elems) = 1 THEN elems[1]
    ELSE elems[1] \o sep \o Join(Tail(elems), sep)

\* NewError(err, status, responseMsg...): &handlerError{err, status, joined}
NewError(err, status, responseMsg) ==
    <<[kind |-> "handlerError", status |-> status,
       responseMsg |-> Join(responseMsg, " ")]>> \o err

\* (*handlerError).StatusMsg, as <<status, message>>
StatusMsg(h) == <<Head(h).status, Head(h).responseMsg>>

\* (*handlerError).Unwrap: h.err
Unwrap(h) == Tail(h)

\* The Unwrap step of errors.Is / errors.As: an errorString has no Unwrap
\* method, a wrapError and a handlerError return what they wrap.
UnwrapStep(err) ==
    IF Head(err).kind = "errorString" THEN NilErr
    ELSE IF Head(err).kind = "handlerError" THEN Unwrap(err)
    ELSE Tail(err)

RECURSIVE errorsIs(_, _), errors_is(_, _), handlerError_Is(_, _)

\* An Is method that compares the cause itself and does not walk its chain.
handlerError_Is_shallow(h, target) == Unwrap(h) = target

\* (*handlerError).Is: errors.Is(h.err, target)
handlerError_Is(h, target) == errorsIs(Unwrap(h), target)

\* errors.is: the walk of errors.Is over the chain of err.
errors_is(err, target) ==
    IF err = target THEN TRUE
    ELSE IF Head(err).kind = "handlerError" /\ handlerError_Is(err, target)
    THEN TRUE
    ELSE IF UnwrapStep(err) = NilErr THEN FALSE
    ELSE errors_is(UnwrapStep(err), target)

\* errors.Is(err, target)
errorsIs(err, target) ==
    IF err = NilErr \/ target = NilErr THEN err = target
    ELSE errors_is(err, target)

\* The types errors.As is asked for: the three concrete error types and the
\* interface{ StatusMsg() (int, string) } of HandleErr.
TargetTypes == {"errorString", "wrapError", "handlerError", "StatusMsg"}

\* reflect: a value of type `kind` is assignable to a target of type T.
AssignableTo(kind, T) ==
    kind = T \/ (T = "StatusMsg" /\ kind = "handlerError")

NoMatch == [ok |-> FALSE, val |-> NilErr]

RECURSIVE errorsAs(_, _), errors_as(_, _), handlerError_As(_, _)

\* (*handlerError).As: errors.As(h.err, target)
handlerError_As(h, T) == errorsAs(Unwrap(h), T)

\* errors.as: the walk of errors.As; yields whether a match was found and
\* the error the target was set to.
errors_as(err, T) ==
    IF AssignableTo(Head(err).kind, T) THEN [ok |-> TRUE, val |-> err]
    ELSE IF Head(err).kind = "handlerError" /\ handlerError_As(err, T).ok
    THEN handlerError_As(err, T)
    ELSE IF UnwrapStep(err) = NilErr THEN NoMatch
    ELSE errors_as(UnwrapStep(err), T)

\* errors.As(err, &target) for a target of type T
errorsAs(err, T) == IF err = NilErr THEN NoMatch ELSE errors_as(err, T)

\* fmt's %q of a text: the text between quotes.
Quote(text) == <<"\"">> \o text \o <<"\"">>

RECURSIVE Error(_)
\* err.Error(): errorString's text, wrapError's "wrap: " and the wrapped
\* text, and (*handlerError).Error's
\* fmt.Sprintf("status=%d msg=%q err=%q", h.status, h.responseMsg, h.err)
Error(err) ==
    IF Head(err).kind = "errorString" THEN <<Head(err).s>>
    ELSE IF Head(err).kind = "wrapError" THEN <<"wrap: ">> \o Error(Tail(err))
    ELSE <<"status=", ToString(Head(err).status), " msg=">>
         \o Quote(<<Head(err).responseMsg>>) \o <<" err=">>
         \o (IF Unwrap(err) = NilErr THEN <<"%!q(<nil>)">>
             ELSE Quote(Error(Unwrap(err))))

RECURSIVE ErrorsUpTo(_)
\* The errors a handler may return: sentinels, wrapped and classified at
\* most d times, a classified error possibly with a nil cause.
ErrorsUpTo(d) ==
    IF d = 0 THEN {ErrorsNew(s) : s \in Sentinels}
    ELSE LET prev == ErrorsUpTo(d - 1) IN
         prev \cup {Errorf(e) : e \in prev}
              \cup {NewError(e, st, p) :
                      e \in prev \cup {NilErr}, st \in Statuses, p \in MsgParts}

Errors == ErrorsUpTo(MaxDepth)

\* -------------------------------------------------------------- composer

\* The terminal HandlerFunc h.
Terminal == <<[kind |-> "terminal"]>>

\* A Middleware applied to a Handler: the closure m(next).
Apply(m, next) == <<[kind |-> "mw", id |-> m]>> \o next

\* A function value that only calls next.ServeHTTP: the method value
\* handler.ServeHTTP and WrapCommon's returned HandlerFunc.
Forward(next) == <<[kind |-> "func"]>> \o next

RECURSIVE Wrap(_, _), Wrap_lastOutermost(_, _)

\* A Wrap that nests the list the other way round: the last middleware
\* outermost.
Wrap_lastOutermost(h, mw) ==
    IF Len(mw) = 0 THEN h
    ELSE Apply(mw[Len(mw)], Wrap_lastOutermost(h, SubSeq(mw, 1, Len(mw) - 1)))

\* Wrap(h, mw...)
Wrap(h, mw) ==
    IF Len(mw) = 0 THEN h
    ELSE Apply(mw[1], Wrap(h, Tail(mw)))

\* A WrapCommon that wraps the specific list around the common one.
WrapCommon_specificOutside(common, h, specific) ==
    Forward(Wrap(Forward(Wrap(h, common)), specific))

\* WrapCommon(common...)(h, specific...)
WrapCommon(common, h, specific) ==
    LET handler == Wrap(h, specific) IN
    Forward(Wrap(Forward(handler), common))

\* ------------------------------------------------------------ translator

StatusInternalServerError == 500

\* http.StatusText(code), for the codes of the model.
StatusText(code) ==
    CASE code = 404 -> "Not Found"
      [] code = 500 -> "Internal Server Error"
      [] OTHER -> ""

\* What the application passes to HandleErr for errWriter and for errFunc:
\* nil, or a writer / a function of its own.
ErrWriterArgs == {"nil", "customWriter"}
ErrFuncArgs == {"nil", "customErrFunc"}

\* HandleErr(errWriter, errFunc): the ToStd closure, which captures the sink
\* and the error function after the defaults are applied.
HandleErr(errWriter, errFunc) ==
    [errWriter |-> IF errWriter = "nil" THEN "os.Stderr" ELSE errWriter,
     errFunc |-> IF errFunc = "nil" THEN "http.Error" ELSE errFunc]

\* The plain Handler of Wrap and WrapCommon has no adapter around it.
NoAdapter == [errWriter |-> "none", errFunc |-> "none"]

\* toStd(h): the http.Handler, as the handler it calls and what it captured.
ToStdApply(toStd, h) == [h |-> h, adapter |-> toStd]

\* WrapCommonToStd(toStd, common...)(h, specific...)
WrapCommonToStd(toStd, common, h, specific) ==
    ToStdApply(toStd, WrapCommon(common, h, specific))

\* WrapToStd(h, toStd, mw...) of the package with HandleErr: toStd is not
\* used, the handler is adapted by HandleErr(nil, nil).
WrapToStd(h, toStd, mw) ==
    LET handler == Wrap(h, mw) IN
    ToStdApply(HandleErr("nil", "nil"), handler)

\* WrapToStd(h, toStd, mw...) of httperr.go
WrapToStd_httperr(h, toStd, mw) ==
    LET handler == Wrap(h, mw) IN
    ToStdApply(toStd, handler)

\* A translation that keeps unwrapping and takes the innermost classified
\* error of the chain.
Classify_innermost(err) ==
    LET at == {i \in 1..Len(err) : err[i].kind = "handlerError"} IN
    IF at = {}
    THEN [msg |-> StatusText(StatusInternalServerError),
          code |-> StatusInternalServerError]
    ELSE LET k == CHOOSE i \in at : \A j \in at : j <= i IN
         [msg |-> err[k].responseMsg, code |-> err[k].status]

\* A translation that sends the text of an unclassified error to the client.
Classify_leaksError(err) ==
    LET e == errorsAs(err, "StatusMsg") IN
    IF e.ok THEN [msg |-> StatusMsg(e.val)[2], code |-> StatusMsg(e.val)[1]]
    ELSE [msg |-> Error(err)[Len(Error(err))],
          code |-> StatusInternalServerError]

\* The arguments HandleErr's handler gives errFunc for a non-nil err.
Classify(err) ==
    LET e == errorsAs(err, "StatusMsg") IN
    IF e.ok THEN [msg |-> StatusMsg(e.val)[2], code |-> StatusMsg(e.val)[1]]
    ELSE [msg |-> StatusText(StatusInternalServerError),
          code |-> StatusInternalServerError]

\* The http.ResponseWriter before anything is written.
FreshWriter == [wroteHeader |-> FALSE, status |-> 0, body |-> <<>>]

\* ResponseWriter.WriteHeader panics on a code below 100 or above 999
\* (net/http's checkWriteHeaderCode).
WriteHeaderPanics(code) == code < 100 \/ code > 999

\* errFunc(w, msg, code) on the writer rw.  http.Error writes the header
\* with the code, then the message and a newline; when WriteHeader panics
\* nothing is written.  The application's own function is taken to write
\* the code and the message as they are.
ErrFuncWrites(fn, rw, msg, code) ==
    IF fn = "http.Error"
    THEN IF WriteHeaderPanics(code) THEN rw
         ELSE [wroteHeader |-> TRUE, status |-> code, body |-> <<msg \o "\n">>]
    ELSE [wroteHeader |-> TRUE, status |-> code, body |-> <<msg>>]

\* ------------------------------------------------------------------ state

VARIABLES
    common,      \* the list WrapCommon / WrapCommonToStd was configured with
    toStd,       \* the ToStd the application built with HandleErr
    route,       \* the entry point and arguments that built the handler
    handler,     \* the composed handler serving the request
    adapter,     \* what the http.Handler around it captured, or NoAdapter
    outcome,     \* the error the terminal handler returns for this request
    depth,       \* how many closures of handler are entered and not left
    pc,          \* position of the request
    ret,         \* the error being returned up the chain
    trace,       \* the markers the middleware and the terminal left
    w,           \* the http.ResponseWriter of the request
    errCalls,    \* the calls of the error function
    sinkWrites,  \* the Write calls on the error sink
    plan,        \* SpecPair: the errors of the two requests compared
    served,      \* SpecPair: what each finished request showed
    probe        \* SpecErrors: the classified error inspected and the result

vars == <<common, toStd, route, handler, adapter, outcome, depth, pc, ret,
          trace, w, errCalls, sinkWrites, plan, served, probe>>

config == <<common, toStd, plan, served, probe>>

RECURSIVE SeqsUpTo(_, _)
\* The sequences over S of length at most n.
SeqsUpTo(S, n) ==
    IF n = 0 THEN {<<>>}
    ELSE LET shorter == SeqsUpTo(S, n - 1) IN
         shorter \cup {<<s>> \o q : s \in S, q \in {t \in shorter : Len(t) = n - 1}}

NoRoute == [entry |-> "none", specific |-> <<>>]
NoProbe == [op |-> "none"]

\* No request is being served.
Idle ==
    /\ route = NoRoute
    /\ handler = Terminal
    /\ adapter = NoAdapter
    /\ outcome = NilErr
    /\ depth = 0
    /\ pc = "idle"
    /\ ret = NilErr
    /\ trace = <<>>
    /\ w = FreshWriter
    /\ errCalls = <<>>
    /\ sinkWrites = <<>>

\* A request arrives at the handler `std` that entry point `entry` built;
\* its terminal handler will return `e`.
Arrive(entry, specific, std, e) ==
    /\ pc = "idle"
    /\ route' = [entry |-> entry, specific |-> specific]
    /\ handler' = std.h
    /\ adapter' = std.adapter
    /\ outcome' = e
    /\ pc' = "call"
    /\ UNCHANGED <<depth, ret, trace, w, errCalls, sinkWrites>>

\* ---------------------------------------------------------------- actions

\* Wrap(h, specific...) serves a request.
RouteWrap ==
    /\ pc = "idle"
    /\ \E specific \in SeqsUpTo(Mws, MaxMw), e \in {NilErr} \cup ErrorsUpTo(0) :
        /\ Arrive("Wrap", specific,
                  [h |-> Wrap(Terminal, specific), adapter |-> NoAdapter], e)
        /\ UNCHANGED config

\* WrapCommon(common...)(h, specific...) serves a request.
RouteWrapCommon ==
    /\ pc = "idle"
    /\ \E specific \in SeqsUpTo(Mws, MaxMw), e \in {NilErr} \cup ErrorsUpTo(0) :
        /\ Arrive("WrapCommon", specific,
                  [h |-> WrapCommon(common, Terminal, specific),
                   adapter |-> NoAdapter], e)
        /\ UNCHANGED config

\* toStd(h), with toStd from HandleErr, serves a request.
RouteHandleErr ==
    /\ pc = "idle"
    /\ \E e \in {NilErr} \cup Errors :
        /\ Arrive("HandleErr", <<>>, ToStdApply(toStd, Terminal), e)
        /\ UNCHANGED config

\* WrapToStd(h, toStd, mw...) serves a request.
RouteWrapToStd ==
    /\ pc = "idle"
    /\ \E mw \in SeqsUpTo({"m1"}, MaxStdMw), e \in {NilErr} \cup Errors :
        /\ Arrive("WrapToStd", mw, WrapToStd(Terminal, toStd, mw), e)
        /\ UNCHANGED config

\* httperr.go's WrapToStd(h, toStd, mw...) serves a request.
RouteWrapToStd_httperr ==
    /\ pc = "idle"
    /\ \E mw \in SeqsUpTo({"m1"}, MaxStdMw), e \in {NilErr} \cup Errors :
        /\ Arrive("WrapToStd_httperr", mw,
                  WrapToStd_httperr(Terminal, toStd, mw), e)
        /\ UNCHANGED config

\* WrapCommonToStd(toStd, common...)(h, specific...) serves a request.
RouteWrapCommonToStd ==
    /\ pc = "idle"
    /\ \E specific \in SeqsUpTo({"m1"}, MaxStdMw), e \in {NilErr} \cup Errors :
        /\ Arrive("WrapCommonToStd", specific,
                  WrapCommonToStd(toStd, common, Terminal, specific), e)
        /\ UNCHANGED config

\* ServeHTTP of a closure around the terminal: a middleware runs its
\* pre-logic and calls next; a forwarding function only calls next.
Enter ==
    /\ pc = "call"
    /\ handler[depth + 1].kind # "terminal"
    /\ depth' = depth + 1
    /\ trace' = IF handler[depth + 1].kind = "mw"
                THEN Append(trace, <<"pre", handler[depth + 1].id>>)
                ELSE trace
    /\ UNCHANGED <<route, handler, adapter, outcome, pc, ret, w, errCalls,
                   sinkWrites>>
    /\ UNCHANGED config

\* The terminal handler runs: it writes its response and returns nil, or
\* returns its error.
CallTerminal ==
    /\ pc = "call"
    /\ handler[depth + 1].kind = "terminal"
    /\ trace' = Append(trace, <<"t">>)
    /\ ret' = outcome
    /\ w' = IF outcome = NilErr
            THEN [wroteHeader |-> TRUE, status |-> 200, body |-> <<"ok">>]
            ELSE w
    /\ pc' = "unwind"
    /\ UNCHANGED <<route, handler, adapter, outcome, depth, errCalls,
                   sinkWrites>>
    /\ UNCHANGED config

\* next.ServeHTTP returned to a closure: a middleware runs its post-logic
\* and returns the error it received, a forwarding function returns it.
Leave ==
    /\ pc = "unwind"
    /\ depth > 0
    /\ depth' = depth - 1
    /\ trace' = IF handler[depth].kind = "mw"
                THEN Append(trace, <<"post", handler[depth].id>>)
                ELSE trace
    /\ UNCHANGED <<route, handler, adapter, outcome, pc, ret, w, errCalls,
                   sinkWrites>>
    /\ UNCHANGED config

\* The composed handler returned to its caller: of a plain Handler that is
\* all; HandleErr's handler returns when err == nil.
ReturnNil ==
    /\ pc = "unwind"
    /\ depth = 0
    /\ adapter = NoAdapter \/ ret = NilErr
    /\ pc' = "done"
    /\ UNCHANGED <<route, handler, adapter, outcome, depth, ret, trace, w,
                   errCalls, sinkWrites>>
    /\ UNCHANGED config

\* HandleErr's handler, err != nil: errors.As for a StatusMsg, then errFunc
\* with its status and message, or with 500 and its text.  http.Error
\* panics in WriteHeader on a code it does not accept.
Respond ==
    /\ pc = "unwind"
    /\ depth = 0
    /\ adapter # NoAdapter
    /\ ret # NilErr
    /\ LET args == Classify(ret) IN
        /\ errCalls' = Append(errCalls,
               [fn |-> adapter.errFunc, msg |-> args.msg, code |-> args.code])
        /\ w' = ErrFuncWrites(adapter.errFunc, w, args.msg, args.code)
        /\ pc' = IF adapter.errFunc = "http.Error" /\ WriteHeaderPanics(args.code)
                 THEN "panic" ELSE "log"
    /\ UNCHANGED <<route, handler, adapter, outcome, depth, ret, trace,
                   sinkWrites>>
    /\ UNCHANGED config

\* fmt.Fprint(errWriter, err): one Write of err.Error(); the Write may fail
\* and its result is not looked at.
LogErr ==
    /\ pc = "log"
    /\ \E ok \in BOOLEAN :
        sinkWrites' = Append(sinkWrites,
            [sink |-> adapter.errWriter, text |-> Error(ret), ok |-> ok])
    /\ pc' = "done"
    /\ UNCHANGED <<route, handler, adapter, outcome, depth, ret, trace, w,
                   errCalls>>
    /\ UNCHANGED config

\* The request is over (returned, or the server recovered the panic); the
\* handler is ready for the next one.
Finish ==
    /\ pc \in {"done", "panic"}
    /\ route' = NoRoute
    /\ handler' = Terminal
    /\ adapter' = NoAdapter
    /\ outcome' = NilErr
    /\ depth' = 0
    /\ pc' = "idle"
    /\ ret' = NilErr
    /\ trace' = <<>>
    /\ w' = FreshWriter
    /\ errCalls' = <<>>
    /\ sinkWrites' = <<>>
    /\ UNCHANGED config

\* --------------------------------------------------------- specifications

\* The translator: the application built toStd with HandleErr and
\* configured the common middleware.
Init ==
    /\ common \in SeqsUpTo({"c1"}, MaxStdMw)
    /\ toStd \in {HandleErr(a, b) : a \in ErrWriterArgs, b \in ErrFuncArgs}
    /\ plan = <<>>
    /\ served = <<>>
    /\ probe = NoProbe
    /\ Idle

Next ==
    \/ RouteHandleErr
    \/ RouteWrapToStd
    \/ RouteWrapToStd_httperr
    \/ RouteWrapCommonToStd
    \/ Enter
    \/ CallTerminal
    \/ Leave
    \/ ReturnNil
    \/ Respond
    \/ LogErr
    \/ Finish

Spec == Init /\ [][Next]_vars

\* The composer alone: plain Handlers built by Wrap and WrapCommon.
InitWrap ==
    /\ common \in SeqsUpTo({"c1", "c2"}, MaxMw)
    /\ toStd = HandleErr("nil", "nil")
    /\ plan = <<>>
    /\ served = <<>>
    /\ probe = NoProbe
    /\ Idle

NextWrap ==
    \/ RouteWrap
    \/ RouteWrapCommon
    \/ Enter
    \/ CallTerminal
    \/ Leave
    \/ ReturnNil
    \/ Finish

SpecWrap == InitWrap /\ [][NextWrap]_vars

\* Position in err of the first classified error, walking from the
\* outermost error inward; 0 when the chain holds none.
FirstClassified(err) ==
    LET at == {i \in 1..Len(err) : err[i].kind = "handlerError"} IN
    IF at = {} THEN 0 ELSE CHOOSE i \in at : \A j \in at : i <= j

\* Two errors that show the client the same: both unclassified, or their
\* first classified errors have the same status and message.  What they
\* wrap, the cause, may differ.
OnlyCauseDiffers(e1, e2) ==
    LET k1 == FirstClassified(e1)
        k2 == FirstClassified(e2) IN
    IF k1 = 0 \/ k2 = 0 THEN k1 = k2
    ELSE SubSeq(e1, 1, k1) = SubSeq(e2, 1, k2)

\* Two requests to one adapted handler, failing with errors that differ
\* only in their cause.
InitPair ==
    /\ common = <<>>
    /\ toStd \in {HandleErr(a, b) : a \in ErrWriterArgs, b \in ErrFuncArgs}
    /\ plan \in {q \in ErrorsUpTo(MaxPairDepth) \X ErrorsUpTo(MaxPairDepth) :
                    OnlyCauseDiffers(q[1], q[2])}
    /\ served = <<>>
    /\ probe = NoProbe
    /\ Idle

\* The next request of the plan arrives at toStd(h).
RoutePair ==
    /\ Len(served) < Len(plan)
    /\ Arrive("HandleErr", <<>>, ToStdApply(toStd, Terminal),
              plan[Len(served) + 1])
    /\ UNCHANGED config

\* The request is over; what the client and the sink got is kept.
FinishPair ==
    /\ pc \in {"done", "panic"}
    /\ served' = Append(served,
           [err |-> ret, calls |-> errCalls, w |-> w, sink |-> sinkWrites])
    /\ route' = NoRoute
    /\ handler' = Terminal
    /\ adapter' = NoAdapter
    /\ outcome' = NilErr
    /\ depth' = 0
    /\ pc' = "idle"
    /\ ret' = NilErr
    /\ trace' = <<>>
    /\ w' = FreshWriter
    /\ errCalls' = <<>>
    /\ sinkWrites' = <<>>
    /\ UNCHANGED <<common, toStd, plan, probe>>

NextPair ==
    \/ RoutePair
    \/ CallTerminal
    \/ Respond
    \/ LogErr
    \/ FinishPair

SpecPair == InitPair /\ [][NextPair]_vars

\* Chain inspection of a classified error.
InitErrors ==
    /\ common = <<>>
    /\ toStd = HandleErr("nil", "nil")
    /\ plan = <<>>
    /\ served = <<>>
    /\ probe = NoProbe
    /\ Idle

RECURSIVE Suffixes(_)
\* err and the errors of its Unwrap chain.
Suffixes(err) == IF err = NilErr THEN {} ELSE {err} \cup Suffixes(Tail(err))

\* The application classifies a cause: e = NewError(cause, status, msg...).
Construct ==
    /\ probe.op = "none"
    /\ \E cause \in Errors \cup {NilErr}, st \in Statuses, p \in MsgParts :
        probe' = [op |-> "NewError", cause |-> cause,
                  e |-> NewError(cause, st, p),
                  target |-> NilErr, result |-> NilErr]
    /\ UNCHANGED <<common, toStd, route, handler, adapter, outcome, depth, pc,
                   ret, trace, w, errCalls, sinkWrites, plan, served>>

\* errors.Is(e, target) and e.Is(target), for a target that is a sentinel,
\* e itself or an error of the cause's chain.
InspectIs ==
    /\ probe.op # "none"
    /\ \E target \in {probe.e} \cup {ErrorsNew(t) : t \in Sentinels}
                     \cup Suffixes(probe.cause) :
        probe' = [probe EXCEPT !.op = "Is", !.target = target,
                     !.result = [method |-> handlerError_Is(probe.e, target),
                                 errors |-> errorsIs(probe.e, target)]]
    /\ UNCHANGED <<common, toStd, route, handler, adapter, outcome, depth, pc,
                   ret, trace, w, errCalls, sinkWrites, plan, served>>

\* errors.As(e, &target) and e.As(&target), for a target of type T.
InspectAs ==
    /\ probe.op # "none"
    /\ \E T \in TargetTypes :
        probe' = [probe EXCEPT !.op = "As", !.target = T,
                     !.result = [method |-> handlerError_As(probe.e, T),
                                 errors |-> errorsAs(probe.e, T)]]
    /\ UNCHANGED <<common, toStd, route, handler, adapter, outcome, depth, pc,
                   ret, trace, w, errCalls, sinkWrites, plan, served>>

\* e.Unwrap()
InspectUnwrap ==
    /\ probe.op # "none"
    /\ probe' = [probe EXCEPT !.op = "Unwrap", !.target = NilErr,
                              !.result = Unwrap(probe.e)]
    /\ UNCHANGED <<common, toStd, route, handler, adapter, outcome, depth, pc,
                   ret, trace, w, errCalls, sinkWrites, plan, served>>

NextErrors ==
    \/ Construct
    \/ InspectIs
    \/ InspectAs
    \/ InspectUnwrap

SpecErrors == InitErrors /\ [][NextErrors]_vars

\* ----------------------------------------------------------------- claims

\* The request is over: the handler returned, or panicked.
Over == pc \in {"done", "panic"}

\* The request went through HandleErr's handler and its handler failed.
Failed == adapter # NoAdapter /\ ret # NilErr

IsPrefix(s, t) == Len(s) <= Len(t) /\ SubSeq(t, 1, Len(s)) = s

\* The markers of a request through middleware mw around the terminal:
\* pre-logic in list order, the terminal, post-logic in reverse order.
ExpectedTrace(mw) ==
    [i \in 1..Len(mw) |-> <<"pre", mw[i]>>]
    \o <<<<"t">>>>
    \o [i \in 1..Len(mw) |-> <<"post", mw[Len(mw) + 1 - i]>>]

\* C1: a request to Wrap(t, m1..mn) runs the pre-logic of m1..mn in list
\* order, then t, then the post-logic in reverse order, at every moment of
\* the request; with n = 0 the handler is t itself; what t returned is what
\* the composed handler returns.
C1_WrapOrder ==
    route.entry = "Wrap" =>
        /\ IsPrefix(trace, ExpectedTrace(route.specific))
        /\ Len(route.specific) = 0 => handler = Terminal
        /\ pc = "done" =>
            /\ trace = ExpectedTrace(route.specific)
            /\ ret = outcome

\* C1 happens: a failing request through three middleware, not all the
\* same, has returned.
C1_Witness ==
    /\ route.entry = "Wrap"
    /\ pc = "done"
    /\ Len(route.specific) = 3
    /\ route.specific[1] # route.specific[2]
    /\ ret # NilErr

\* C2: a request to WrapCommon(c1..ck)(t, s1..sn) runs pre-logic in the
\* order c1..ck, s1..sn, then t, then post-logic sn..s1, ck..c1, for every
\* route built from the same common list.
C2_CommonOutermost ==
    route.entry = "WrapCommon" =>
        /\ IsPrefix(trace, ExpectedTrace(common \o route.specific))
        /\ pc = "done" =>
            /\ trace = ExpectedTrace(common \o route.specific)
            /\ ret = outcome

\* C2 happens: a request through two common and two specific middleware has
\* returned.
C2_Witness ==
    /\ route.entry = "WrapCommon"
    /\ pc = "done"
    /\ Len(common) = 2
    /\ Len(route.specific) = 2
    /\ common[1] # common[2]

\* C3: a failing request calls the error function exactly once and writes
\* to the error sink exactly once; a request whose handler returned nil does
\* neither.
C3_ExactlyOnce ==
    (Over /\ adapter # NoAdapter) =>
        IF ret # NilErr
        THEN Len(errCalls) = 1 /\ Len(sinkWrites) = 1
        ELSE Len(errCalls) = 0 /\ Len(sinkWrites) = 0

\* C4: the error function is called with the status and message of the
\* first classified error of the chain, from the outermost inward, and with
\* 500 and "Internal Server Error" when the chain holds none.
C4_FirstClassified ==
    /\ (Failed /\ pc \in {"log", "done", "panic"}) => Len(errCalls) = 1
    /\ \A i \in 1..Len(errCalls) :
        LET k == FirstClassified(ret) IN
        IF k = 0
        THEN errCalls[i].code = 500 /\ errCalls[i].msg = "Internal Server Error"
        ELSE errCalls[i].code = ret[k].status
             /\ errCalls[i].msg = ret[k].responseMsg

\* C4 happens: a classified error that holds another classified error with
\* another status was translated, with the status of the outer one.
C4_Witness ==
    /\ pc = "done"
    /\ Len(errCalls) = 1
    /\ Len(ret) = 3
    /\ ret[1].kind = "handlerError"
    /\ ret[2].kind = "handlerError"
    /\ ret[1].status # ret[2].status
    /\ errCalls[1].code = ret[1].status

\* C6: a classified error made with no message parts is answered with the
\* standard text of its status code.
C6_GenericFallback ==
    \A i \in 1..Len(errCalls) :
        LET k == FirstClassified(ret) IN
        (k > 0 /\ ret[k].responseMsg = "") =>
            errCalls[i].msg = StatusText(ret[k].status)

\* C8: HandleErr's handler never fails, and a failed write to the error
\* sink leaves the response as the error function wrote it.
C8_NeverFails ==
    /\ pc # "panic"
    /\ (pc = "done" /\ Failed) =>
        /\ Len(sinkWrites) = 1
        /\ w = ErrFuncWrites(adapter.errFunc, FreshWriter,
                             errCalls[1].msg, errCalls[1].code)

\* C9: every classified error carries a status in 100..599, and so does
\* every call of the error function.
C9_ValidStatus ==
    /\ \A i \in 1..Len(outcome) :
        outcome[i].kind = "handlerError" => outcome[i].status \in 100..599
    /\ \A i \in 1..Len(errCalls) : errCalls[i].code \in 100..599

\* C10: WrapToStd(h, toStd, mw...) is toStd(Wrap(h, mw...)): the error
\* function and the sink toStd was configured with are the ones used.
C10_UsesToStd ==
    route.entry \in {"WrapToStd", "WrapToStd_httperr"} =>
        /\ handler = Wrap(Terminal, route.specific)
        /\ adapter = toStd
        /\ \A i \in 1..Len(errCalls) : errCalls[i].fn = toStd.errFunc
        /\ \A i \in 1..Len(sinkWrites) : sinkWrites[i].sink = toStd.errWriter

\* The cause of err: what its first classified error wraps; the error
\* itself when it is unclassified.
CauseOf(err) ==
    IF FirstClassified(err) = 0 THEN err
    ELSE SubSeq(err, FirstClassified(err) + 1, Len(err))

\* The tokens of a text, as a set.
Tokens(text) == {text[i] : i \in 1..Len(text)}

\* C5: two failing requests whose errors differ only in their cause give
\* the error function the same arguments and the client the same response;
\* no sentinel's text is in what the client gets, and what the sink gets is
\* the full text of the error, the cause's text in it.
C5_CauseNotExposed ==
    /\ Len(served) = 2 =>
        /\ served[1].calls = served[2].calls
        /\ served[1].w = served[2].w
    /\ \A i \in 1..Len(served) :
        /\ Len(served[i].calls) = 1
        /\ served[i].calls[1].msg \notin Sentinels
        /\ Tokens(served[i].w.body) \cap Sentinels = {}
        /\ \A j \in 1..Len(served[i].sink) :
            /\ served[i].sink[j].text = Error(served[i].err)
            /\ CauseOf(served[i].err) # NilErr =>
                 Tokens(Error(CauseOf(served[i].err)))
                     \subseteq Tokens(served[i].sink[j].text)

\* C5 happens: two classified errors with the same status and message and
\* different causes were translated and logged.
C5_Witness ==
    /\ Len(served) = 2
    /\ FirstClassified(served[1].err) > 0
    /\ CauseOf(served[1].err) # NilErr
    /\ CauseOf(served[2].err) # NilErr
    /\ CauseOf(served[1].err) # CauseOf(served[2].err)
    /\ Len(served[1].sink) = 1
    /\ Len(served[2].sink) = 1
    /\ served[1].sink[1].text # served[2].sink[1].text

\* C7 as stated: for every target error and target type, errors.Is and errors.As on e give what
\* they give on the cause, and Unwrap(e) is the cause.
C7_AsStated ==
    /\ probe.op = "Is" =>
        probe.result.errors = errorsIs(probe.cause, probe.target)
    /\ probe.op = "As" =>
        probe.result.errors = errorsAs(probe.cause, probe.target)
    /\ probe.op = "Unwrap" => probe.result = probe.cause

\* C7, amended: the Is and As methods of e give what errors.Is and
\* errors.As give on the cause, and Unwrap(e) is the cause.  errors.Is(e,
\* target) does too for a non-nil target other than e, and is true for e
\* itself; errors.As(e, &target) does too for a target type that e's own
\* type is not assignable to, and yields e for one it is assignable to.
C7_Delegates ==
    /\ probe.op = "Is" =>
        /\ probe.result.method = errorsIs(probe.cause, probe.target)
        /\ probe.target # probe.e =>
             probe.result.errors = errorsIs(probe.cause, probe.target)
        /\ probe.target = probe.e => probe.result.errors
    /\ probe.op = "As" =>
        /\ probe.result.method = errorsAs(probe.cause, probe.target)
        /\ ~AssignableTo("handlerError", probe.target) =>
             probe.result.errors = errorsAs(probe.cause, probe.target)
        /\ AssignableTo("handlerError", probe.target) =>
             probe.result.errors = [ok |-> TRUE, val |-> probe.e]
    /\ probe.op = "Unwrap" => probe.result = probe.cause

\* C7 happens: errors.Is found, through e, a sentinel that the cause wraps
\* two levels down.
C7_Witness ==
    /\ probe.op = "Is"
    /\ Len(probe.cause) = 3
    /\ probe.target = SubSeq(probe.cause, 3, 3)
    /\ probe.result.errors

====
